---- MODULE Spec2Model ----
(***************************************************************************)
(* The RRT planner of src/src/rrt.rs with its collaborators: the point     *)
(* algebra (point.rs), the distances (distance.rs), the spherical-obstacle *)
(* validity checker (collision.rs), the bounded straight-line steering     *)
(* (steering.rs), the nearest-neighbour indexes (neighbors.rs), the        *)
(* sampling distribution (sampling.rs) and the path smoother               *)
(* (smoothing.rs).                                                         *)
(*                                                                         *)
(* The planner is generic in the float type F and the dimension N.  The    *)
(* model instantiates N = 1 and lets every coordinate be an integer: the   *)
(* samples are multiples of 4, the steering range is 8 and the spheres     *)
(* have integer centers and radii.  On such values every IEEE operation    *)
(* the planner performs (subtraction, product, the square root of a        *)
(* perfect square, x / |x|, the comparisons of t with 0 and 1) is exact,   *)
(* so integer arithmetic computes what the floating-point code computes.   *)
(* Where a whole number is not a value of F = f32 (from 2^24 on), the      *)
(* point operations round their result as f32 does.                        *)
(* The one non-finite value that occurs, t = 0/0 on a zero-length edge, is *)
(* modelled by its IEEE behaviour (every comparison with NaN is false).    *)
(*                                                                         *)
(* Option<T> is modelled as a set: None is {} and Some(x) is {x}.          *)
(***************************************************************************)
EXTENDS Integers, Sequences, FiniteSets, TLC

VARIABLES
    rrt,         \* the RRT struct: goal, goal_tolerance, nodes, solution, nearest_neighbors
    frame,       \* the caller's position in solve / run_iterations
    last,        \* what the last step did (locals of the last iteration)
    start,       \* the start point given to RRT::new
    twin_rrt,    \* a second planner, started from the same state on every call ...
    twin_frame,  \* ... and driven by the other entry point with the same samples
    lib          \* the last call of a library function made outside the planner

vars == <<rrt, frame, last, start, twin_rrt, twin_frame, lib>>

----------------------------------------------------------------------------
(* Bounds of the model *)

\* the samples are the points 0, 4, ..., 4 * GridMax
GridMax == 6
\* no call is made that could grow the tree beyond MaxNodes nodes
MaxNodes == 5
\* the largest argument given to solve / run_iterations
MaxIterations == 3
\* the longest path given to fast_shortcutting
MaxPathLen == 4

----------------------------------------------------------------------------
(* Option *)

None == {}
Some(x) == {x}
is_some(o) == o # {}
unwrap(o) == CHOOSE x \in o : TRUE

----------------------------------------------------------------------------
(* point.rs: Point<F, N>, a tuple of N coordinates.  The planner is         *)
(* instantiated with N = 1; the operators take N from their operand.       *)

N == 1

\* F = f32: the number of digits of the mantissa
MANTISSA_DIGITS == 24

abs(x) == IF x < 0 THEN -x ELSE x

\* the distance between the f32 values around the whole number a >= 0, a
\* power of two: 1 below 2^24, 2 from there to 2^25, and so on
spacing(a) ==
    2^(CHOOSE k \in 0..7 :
           /\ a \div 2^k < 2^MANTISSA_DIGITS
           /\ k = 0 \/ a \div 2^(k - 1) >= 2^MANTISSA_DIGITS)

\* the multiple of s nearest to a >= 0, a tie going to the even multiple
round_to(a, s) ==
    s * ((a \div s)
           + IF \/ 2 * (a % s) > s
                \/ 2 * (a % s) = s /\ (a \div s) % 2 = 1
             THEN 1 ELSE 0)

\* The f32 an operation returns when its exact result is the whole number
\* x: x itself when its magnitude is below 2^24, else the nearest f32, a tie
\* going to the even mantissa.
round(x) ==
    IF -(2^MANTISSA_DIGITS) < x /\ x < 2^MANTISSA_DIGITS THEN x
    ELSE IF x < 0 THEN -round_to(-x, spacing(-x))
    ELSE round_to(x, spacing(x))

Point(coords) == coords

dot(a, b) ==
    LET sum[i \in 0..Len(a)] ==
            IF i = 0 THEN 0 ELSE round(sum[i - 1] + round(a[i] * b[i]))
    IN sum[Len(a)]

norm_squared(a) == dot(a, a)

\* the float square root; every squared norm the model takes is a perfect square
sqrt(x) == CHOOSE r \in 0..x : r * r = x

norm(a) == sqrt(norm_squared(a))

add(a, b) == [i \in 1..Len(a) |-> round(a[i] + b[i])]
sub(a, b) == [i \in 1..Len(a) |-> round(a[i] - b[i])]
mul(a, scalar) == [i \in 1..Len(a) |-> round(a[i] * scalar)]
\* the model divides a vector only by its own norm: the quotient is exact
div(a, scalar) == [i \in 1..Len(a) |-> IF a[i] >= 0 THEN a[i] \div scalar
                                                    ELSE -((-a[i]) \div scalar)]

----------------------------------------------------------------------------
(* distance.rs *)

euclidean_distance_squared(a, b) == norm_squared(sub(a, b))
euclidean_distance(a, b) == norm(sub(a, b))

----------------------------------------------------------------------------
(* collision.rs: EuclideanSphericalObstacleSet *)

Sphere(center, radius) == [center |-> center, radius |-> radius]

EuclideanSphericalObstacleSet_new(spheres) == [spheres |-> spheres]

\* the obstacle set the planner is constructed with
spheres ==
    EuclideanSphericalObstacleSet_new(
        << Sphere(Point(<<0>>), 1), Sphere(Point(<<6>>), 1) >>)

is_point_valid(self, point) ==
    \A k \in 1..Len(self.spheres) :
        ~(euclidean_distance_squared(point, self.spheres[k].center)
              <= self.spheres[k].radius * self.spheres[k].radius)

\* One pass of the loop of is_edge_valid: TRUE when the pass returns false.
\* t = num / den is kept as a fraction; with den = 0 the code computes
\* t = 0/0 = NaN, both comparisons of t are false, closest is NaN and the
\* last comparison is false too: the sphere never rejects the edge.
edge_hits_sphere(a, b, sphere) ==
    LET ab == sub(b, a)
        ap == sub(sphere.center, a)
        num == dot(ab, ap)
        den == norm_squared(ab)
        radius_squared == sphere.radius * sphere.radius
        \* den * (closest - center), closest = a + ab * t
        closest_scaled == add(mul(sub(a, sphere.center), den), mul(ab, num))
    IN IF den = 0 THEN FALSE
       ELSE IF num < 0 \/ num > den
            THEN \/ euclidean_distance_squared(a, sphere.center) <= radius_squared
                 \/ euclidean_distance_squared(b, sphere.center) <= radius_squared
            ELSE norm_squared(closest_scaled) <= radius_squared * den * den

is_edge_valid(self, a, b) ==
    \A k \in 1..Len(self.spheres) : ~edge_hits_sphere(a, b, self.spheres[k])

----------------------------------------------------------------------------
(* steering.rs: EuclideanSteering *)

EuclideanSteering_new(r) == [range |-> r]

\* the range of the steering the planner is constructed with
range == 8

steer(self, from, to) ==
    LET distance == euclidean_distance(from, to)
    IN IF distance <= self.range
       THEN to
       ELSE LET direction == sub(to, from)
                steering_vector == div(direction, distance)
            IN add(from, mul(steering_vector, self.range))

----------------------------------------------------------------------------
(* sampling.rs: the points a sampling distribution may return *)

Samples == { Point([i \in 1..N |-> 4 * k]) : k \in 0..GridMax }

----------------------------------------------------------------------------
(* neighbors.rs: LinearNearestNeighbors, points: Vec<(Point, usize)> *)

NearestNeighbors_new == << >>

NearestNeighbors_add(points, point, item) == Append(points, <<point, item>>)

\* Iterator::min_by returns the first of several equally minimum elements
nearest_one(points, point) ==
    IF points = << >> THEN None
    ELSE LET d(k) == euclidean_distance_squared(points[k][1], point)
             nearest == CHOOSE k \in 1..Len(points) :
                            /\ \A j \in 1..Len(points) : d(k) <= d(j)
                            /\ \A j \in 1..(k - 1) : d(j) > d(k)
         IN Some(points[nearest][2])

\* LinearNearestNeighbors::nearest_k: a stable sort by distance, then the
\* items of the first k entries
nearest_k(points, point, k) ==
    LET d(j) == euclidean_distance_squared(points[j][1], point)
        ahead(j) == { i \in 1..Len(points) : d(i) < d(j) \/ (d(i) = d(j) /\ i < j) }
        sorted == [r \in 1..Len(points) |->
                      CHOOSE j \in 1..Len(points) : Cardinality(ahead(j)) = r - 1]
        taken == IF k < Len(points) THEN k ELSE Len(points)
    IN [r \in 1..taken |-> points[sorted[r]][2]]

\* LinearNearestNeighbors::within_radius
within_radius(points, point, radius) ==
    LET inside(entry) == euclidean_distance_squared(entry[1], point) <= radius * radius
        kept == SelectSeq(points, inside)
    IN [r \in 1..Len(kept) |-> kept[r][2]]

\* KdTreeNearestNeighbors: the tree is held by the kiddo crate, modelled by
\* the entries added to it
KdTree_new == << >>

KdTree_add(kdtree, point, item) == Append(kdtree, <<point, item>>)

\* the items kiddo's nearest_one may hand back for a tree without entries
PlaceholderItems == {0, 1}

\* kiddo's KdTree::nearest_one: the results it can return.  On a tree
\* without entries there is no neighbour; it returns a NearestNeighbour all
\* the same, whose item is not the item of any entry.
kiddo_nearest_one(kdtree, point) ==
    IF kdtree = << >>
    THEN { [item |-> item] : item \in PlaceholderItems }
    ELSE { [item |-> unwrap(nearest_one(kdtree, point))] }

\* KdTreeNearestNeighbors::nearest_one, given the neighbour kiddo returned
KdTree_nearest_one(neighbor) == Some(neighbor.item)

\* KdTreeNearestNeighbors::nearest_k, through kiddo's nearest_n
KdTree_nearest_k(kdtree, point, k) == nearest_k(kdtree, point, k)

\* KdTreeNearestNeighbors::within_radius, through kiddo's within, whose
\* results come sorted by distance
KdTree_within_radius(kdtree, point, radius) ==
    LET inside(entry) == euclidean_distance_squared(entry[1], point) <= radius * radius
        kept == SelectSeq(kdtree, inside)
    IN nearest_k(kept, point, Len(kept))

----------------------------------------------------------------------------
(* smoothing.rs *)

\* mutant of fast_shortcutting: the point that failed is committed
fast_shortcutting_CommitsCurrent(path, validity_checker) ==
    LET pass[i \in 0..(Len(path) - 1)] ==
            IF i = 0
            THEN [smoothed_path |-> <<path[1]>>, last_valid |-> 0]
            ELSE LET before == pass[i - 1]
                 IN IF ~is_edge_valid(validity_checker,
                                      before.smoothed_path[before.last_valid + 1],
                                      path[i + 1])
                    THEN [smoothed_path |-> Append(before.smoothed_path, path[i + 1]),
                          last_valid |-> Len(before.smoothed_path)]
                    ELSE before
    IN Append(pass[Len(path) - 1].smoothed_path, path[Len(path)])

\* pass[i] holds smoothed_path and last_valid after the loop pass for i;
\* path[i] of the code is path[i + 1] here
fast_shortcutting(path, validity_checker) ==
    LET pass[i \in 0..(Len(path) - 1)] ==
            IF i = 0
            THEN [smoothed_path |-> <<path[1]>>, last_valid |-> 0]
            ELSE LET before == pass[i - 1]
                 IN IF ~is_edge_valid(validity_checker,
                                      before.smoothed_path[before.last_valid + 1],
                                      path[i + 1])
                    THEN [smoothed_path |-> Append(before.smoothed_path, path[i]),
                          last_valid |-> Len(before.smoothed_path)]
                    ELSE before
    IN Append(pass[Len(path) - 1].smoothed_path, path[Len(path)])

----------------------------------------------------------------------------
(* rrt.rs *)

Node(point, parent) == [point |-> point, parent |-> parent]

\* nodes is a Vec indexed from 0
NodeAt(self, index) == self.nodes[index + 1]

\* mutant of add_node: the node is inserted at the front of the Vec
add_node_InsertFront(self, node) ==
    LET index == Len(self.nodes)
    IN [rrt |-> [self EXCEPT
                   !.nearest_neighbors =
                       NearestNeighbors_add(@, node.point, index),
                   !.nodes = <<node>> \o @],
        index |-> index]

\* mutant of add_node: every point is registered under the item 0
add_node_ItemZero(self, node) ==
    LET index == Len(self.nodes)
    IN [rrt |-> [self EXCEPT
                   !.nearest_neighbors =
                       NearestNeighbors_add(@, node.point, 0),
                   !.nodes = Append(@, node)],
        index |-> index]

\* returns the planner after the call and the index of the node
add_node(self, node) ==
    LET index == Len(self.nodes)
    IN [rrt |-> [self EXCEPT
                   !.nearest_neighbors =
                       NearestNeighbors_add(@, node.point, index),
                   !.nodes = Append(@, node)],
        index |-> index]

\* mutant of new: a root within tolerance of the goal is recorded as solution
new_ChecksRoot(start_point, goal, goal_tolerance, validity_checker, steering) ==
    LET rrt0 == [goal |-> goal,
                 goal_tolerance |-> goal_tolerance,
                 solution |-> None,
                 nodes |-> << >>,
                 validity_checker |-> validity_checker,
                 steering |-> steering,
                 nearest_neighbors |-> NearestNeighbors_new]
        root == Node(start_point, None)
        added == add_node(rrt0, root)
    IN IF euclidean_distance_squared(start_point, goal)
              <= goal_tolerance * goal_tolerance
       THEN [added.rrt EXCEPT !.solution = Some(added.index)]
       ELSE added.rrt

new(start_point, goal, goal_tolerance, validity_checker, steering) ==
    LET rrt0 == [goal |-> goal,
                 goal_tolerance |-> goal_tolerance,
                 solution |-> None,
                 nodes |-> << >>,
                 validity_checker |-> validity_checker,
                 steering |-> steering,
                 nearest_neighbors |-> NearestNeighbors_new]
        root == Node(start_point, None)
    IN add_node(rrt0, root).rrt

solved(self) == is_some(self.solution)

\* mutant of iteration: the new node is given its own index as parent
iteration_SelfParent(self, sample) ==
    LET nearest_node_index == unwrap(nearest_one(self.nearest_neighbors, sample))
        nearest_point == NodeAt(self, nearest_node_index).point
        new_point == steer(self.steering, nearest_point, sample)
    IN IF \/ ~is_point_valid(self.validity_checker, new_point)
          \/ ~is_edge_valid(self.validity_checker, nearest_point, new_point)
       THEN self
       ELSE LET new_node == Node(new_point, Some(Len(self.nodes)))
                added == add_node(self, new_node)
                dist_squared == euclidean_distance_squared(new_point, self.goal)
            IN IF dist_squared <= self.goal_tolerance * self.goal_tolerance
               THEN [added.rrt EXCEPT !.solution = Some(added.index)]
               ELSE added.rrt

\* mutant of iteration: only the point is checked, not the edge
iteration_NoEdgeCheck(self, sample) ==
    LET nearest_node_index == unwrap(nearest_one(self.nearest_neighbors, sample))
        nearest_point == NodeAt(self, nearest_node_index).point
        new_point == steer(self.steering, nearest_point, sample)
    IN IF ~is_point_valid(self.validity_checker, new_point)
       THEN self
       ELSE LET new_node == Node(new_point, Some(nearest_node_index))
                added == add_node(self, new_node)
                dist_squared == euclidean_distance_squared(new_point, self.goal)
            IN IF dist_squared <= self.goal_tolerance * self.goal_tolerance
               THEN [added.rrt EXCEPT !.solution = Some(added.index)]
               ELSE added.rrt

\* mutant of iteration: the new point enters the nearest-neighbour index
\* before it is checked
iteration_IndexBeforeCheck(self, sample) ==
    LET nearest_node_index == unwrap(nearest_one(self.nearest_neighbors, sample))
        nearest_point == NodeAt(self, nearest_node_index).point
        new_point == steer(self.steering, nearest_point, sample)
        indexed == [self EXCEPT !.nearest_neighbors =
                        NearestNeighbors_add(@, new_point, Len(self.nodes))]
    IN IF \/ ~is_point_valid(self.validity_checker, new_point)
          \/ ~is_edge_valid(self.validity_checker, nearest_point, new_point)
       THEN indexed
       ELSE LET dist_squared == euclidean_distance_squared(new_point, self.goal)
                added == [indexed EXCEPT !.nodes =
                              Append(@, Node(new_point, Some(nearest_node_index)))]
            IN IF dist_squared <= self.goal_tolerance * self.goal_tolerance
               THEN [added EXCEPT !.solution = Some(Len(self.nodes))]
               ELSE added

\* mutant of iteration: the solution marker follows the last node added
iteration_ClearsSolution(self, sample) ==
    LET nearest_node_index == unwrap(nearest_one(self.nearest_neighbors, sample))
        nearest_point == NodeAt(self, nearest_node_index).point
        new_point == steer(self.steering, nearest_point, sample)
    IN IF \/ ~is_point_valid(self.validity_checker, new_point)
          \/ ~is_edge_valid(self.validity_checker, nearest_point, new_point)
       THEN self
       ELSE LET new_node == Node(new_point, Some(nearest_node_index))
                added == add_node(self, new_node)
                dist_squared == euclidean_distance_squared(new_point, self.goal)
            IN IF dist_squared <= self.goal_tolerance * self.goal_tolerance
               THEN [added.rrt EXCEPT !.solution = Some(added.index)]
               ELSE [added.rrt EXCEPT !.solution = None]

iteration(self, sample) ==
    LET nearest_node_index == unwrap(nearest_one(self.nearest_neighbors, sample))
        nearest_point == NodeAt(self, nearest_node_index).point
        new_point == steer(self.steering, nearest_point, sample)
    IN IF \/ ~is_point_valid(self.validity_checker, new_point)
          \/ ~is_edge_valid(self.validity_checker, nearest_point, new_point)
       THEN self
       ELSE LET new_node == Node(new_point, Some(nearest_node_index))
                added == add_node(self, new_node)
                dist_squared == euclidean_distance_squared(new_point, self.goal)
            IN IF dist_squared <= self.goal_tolerance * self.goal_tolerance
               THEN [added.rrt EXCEPT !.solution = Some(added.index)]
               ELSE added.rrt

\* the points from current_index up to the root, following the parents
RECURSIVE backtrack(_, _)
backtrack(self, current_index) ==
    IF is_some(NodeAt(self, current_index).parent)
    THEN <<NodeAt(self, current_index).point>>
             \o backtrack(self, unwrap(NodeAt(self, current_index).parent))
    ELSE <<NodeAt(self, current_index).point>>

reverse(path) == [k \in 1..Len(path) |-> path[Len(path) + 1 - k]]

\* mutant of get_path: the path is not reversed
get_path_NoReverse(self) ==
    IF ~is_some(self.solution) THEN None
    ELSE Some(backtrack(self, unwrap(self.solution)))

get_path(self) ==
    IF ~solved(self) THEN None
    ELSE Some(reverse(backtrack(self, unwrap(self.solution))))

\* A call of solve or run_iterations in progress: fn the entry point, arg its
\* argument, i the number of loop passes begun, active until it returns, ret
\* the value returned.
Frame(fn, arg) == [fn |-> fn, arg |-> arg, i |-> 0, active |-> TRUE, ret |-> FALSE]

\* one turn of `for _ in 0..max_iterations` in solve, or the return after it
solve(self, f, sample) ==
    IF f.i < f.arg
    THEN LET after(r) ==
                 IF solved(r)
                 THEN [rrt |-> r,
                       frame |-> [f EXCEPT !.i = @ + 1, !.active = FALSE, !.ret = TRUE]]
                 ELSE [rrt |-> r, frame |-> [f EXCEPT !.i = @ + 1]]
         IN after(iteration(self, sample))
    ELSE [rrt |-> self, frame |-> [f EXCEPT !.active = FALSE, !.ret = FALSE]]

\* mutant of run_iterations: it does not return early when a solution is found
run_iterations_NoEarlyStop(self, f, sample) ==
    IF f.i < f.arg
    THEN [rrt |-> iteration(self, sample), frame |-> [f EXCEPT !.i = @ + 1]]
    ELSE [rrt |-> self,
          frame |-> [f EXCEPT !.active = FALSE, !.ret = is_some(self.solution)]]

\* one turn of `for _ in 0..iterations` in run_iterations, or the return after it
run_iterations(self, f, sample) ==
    IF f.i < f.arg
    THEN LET after(r) ==
                 IF solved(r)
                 THEN [rrt |-> r,
                       frame |-> [f EXCEPT !.i = @ + 1, !.active = FALSE, !.ret = TRUE]]
                 ELSE [rrt |-> r, frame |-> [f EXCEPT !.i = @ + 1]]
         IN after(iteration(self, sample))
    ELSE [rrt |-> self, frame |-> [f EXCEPT !.active = FALSE, !.ret = FALSE]]

----------------------------------------------------------------------------
(* The planner as a state machine *)

\* the inputs of RRT::new
Goal == Point(<<24>>)
GoalTolerance == 4
Starts == { Point(<<8>>), Point(<<20>>) }

\* no library call has been made
NoCall == [fn |-> "none"]

\* what a step that runs no iteration leaves in `last`
NoIteration(op) ==
    [op |-> op, sample |-> << >>, nearest_node_index |-> None, new_point |-> << >>,
     solved_before |-> FALSE, point_valid |-> FALSE, edge_valid |-> FALSE]

\* the locals of iteration(self, sample), as the code computes them
IterationLocals(self, sample) ==
    LET nearest_node_index == unwrap(nearest_one(self.nearest_neighbors, sample))
        nearest_point == NodeAt(self, nearest_node_index).point
        new_point == steer(self.steering, nearest_point, sample)
    IN [op |-> "iteration",
        sample |-> sample,
        nearest_node_index |-> Some(nearest_node_index),
        new_point |-> new_point,
        solved_before |-> solved(self),
        point_valid |-> is_point_valid(self.validity_checker, new_point),
        edge_valid |-> is_edge_valid(self.validity_checker, nearest_point, new_point)]

\* the twin takes the same turn of the other entry point
TwinStep(sample) ==
    IF ~twin_frame.active
    THEN [rrt |-> twin_rrt, frame |-> twin_frame]
    ELSE IF twin_frame.fn = "solve"
         THEN solve(twin_rrt, twin_frame, sample)
         ELSE run_iterations(twin_rrt, twin_frame, sample)

Init ==
    \E s \in Starts :
        /\ start = s
        /\ rrt = new(s, Goal, GoalTolerance, spheres, EuclideanSteering_new(range))
        /\ frame = [Frame("none", 0) EXCEPT !.active = FALSE]
        /\ last = NoIteration("new")
        /\ twin_rrt = rrt
        /\ twin_frame = frame
        /\ lib = NoCall

CallSolve(max_iterations) ==
    /\ ~frame.active
    /\ Len(rrt.nodes) + max_iterations <= MaxNodes
    /\ frame' = Frame("solve", max_iterations)
    /\ twin_rrt' = rrt
    /\ twin_frame' = Frame("run_iterations", max_iterations)
    /\ last' = NoIteration("call")
    /\ UNCHANGED <<rrt, start, lib>>

CallRunIterations(iterations) ==
    /\ ~frame.active
    /\ Len(rrt.nodes) + iterations <= MaxNodes
    /\ frame' = Frame("run_iterations", iterations)
    /\ twin_rrt' = rrt
    /\ twin_frame' = Frame("solve", iterations)
    /\ last' = NoIteration("call")
    /\ UNCHANGED <<rrt, start, lib>>

SolveIteration(sample) ==
    /\ frame.active /\ frame.fn = "solve" /\ frame.i < frame.arg
    /\ \E r \in {solve(rrt, frame, sample)}, t \in {TwinStep(sample)} :
          /\ rrt' = r.rrt
          /\ frame' = r.frame
          /\ twin_rrt' = t.rrt
          /\ twin_frame' = t.frame
    /\ last' = IterationLocals(rrt, sample)
    /\ UNCHANGED <<start, lib>>

SolveReturn ==
    /\ frame.active /\ frame.fn = "solve" /\ frame.i = frame.arg
    /\ \E r \in {solve(rrt, frame, rrt.goal)}, t \in {TwinStep(rrt.goal)} :
          /\ rrt' = r.rrt
          /\ frame' = r.frame
          /\ twin_rrt' = t.rrt
          /\ twin_frame' = t.frame
    /\ last' = NoIteration("return")
    /\ UNCHANGED <<start, lib>>

RunIteration(sample) ==
    /\ frame.active /\ frame.fn = "run_iterations" /\ frame.i < frame.arg
    /\ \E r \in {run_iterations(rrt, frame, sample)}, t \in {TwinStep(sample)} :
          /\ rrt' = r.rrt
          /\ frame' = r.frame
          /\ twin_rrt' = t.rrt
          /\ twin_frame' = t.frame
    /\ last' = IterationLocals(rrt, sample)
    /\ UNCHANGED <<start, lib>>

RunReturn ==
    /\ frame.active /\ frame.fn = "run_iterations" /\ frame.i = frame.arg
    /\ \E r \in {run_iterations(rrt, frame, rrt.goal)}, t \in {TwinStep(rrt.goal)} :
          /\ rrt' = r.rrt
          /\ frame' = r.frame
          /\ twin_rrt' = t.rrt
          /\ twin_frame' = t.frame
    /\ last' = NoIteration("return")
    /\ UNCHANGED <<start, lib>>

Next ==
    \/ \E max_iterations \in 0..MaxIterations : CallSolve(max_iterations)
    \/ \E iterations \in 0..MaxIterations : CallRunIterations(iterations)
    \/ \E sample \in Samples : SolveIteration(sample)
    \/ SolveReturn
    \/ \E sample \in Samples : RunIteration(sample)
    \/ RunReturn

Spec == Init /\ [][Next]_vars

----------------------------------------------------------------------------
(* Calls of the library functions outside the planner: each action is one  *)
(* call, made by a caller that has made none yet, and leaves the call and  *)
(* what it returned in lib.                                                *)

\* the points of the plane the callers take their arguments from
Waypoints == { Point(<<2 * x, 2 * y>>) : x \in 0..2, y \in 0..2 }

\* the obstacle set of the callers: one sphere in the middle of the points
waypoint_obstacles ==
    EuclideanSphericalObstacleSet_new(<< Sphere(Point(<<2, 2>>), 1) >>)

\* a path a planner may have returned: its points and edges are valid
IsValidPath(path, validity_checker) ==
    /\ \A k \in 1..Len(path) : is_point_valid(validity_checker, path[k])
    /\ \A k \in 1..(Len(path) - 1) :
           is_edge_valid(validity_checker, path[k], path[k + 1])

ValidPaths ==
    { path \in UNION { [1..n -> Waypoints] : n \in 1..MaxPathLen } :
          IsValidPath(path, waypoint_obstacles) }

\* the indexes queried: nothing added, one entry, two entries
Indexes ==
    LET one == NearestNeighbors_add(NearestNeighbors_new, Point(<<0, 0>>), 0)
    IN { NearestNeighbors_new, one, NearestNeighbors_add(one, Point(<<4, 2>>), 1) }

CallFastShortcutting(path) ==
    /\ lib = NoCall
    /\ lib' = [fn |-> "fast_shortcutting",
               path |-> path,
               result |-> fast_shortcutting(path, waypoint_obstacles)]
    /\ UNCHANGED <<rrt, frame, last, start, twin_rrt, twin_frame>>

CallIsEdgeValid(a, b) ==
    /\ lib = NoCall
    /\ lib' = [fn |-> "is_edge_valid",
               a |-> a,
               b |-> b,
               result |-> is_edge_valid(waypoint_obstacles, a, b)]
    /\ UNCHANGED <<rrt, frame, last, start, twin_rrt, twin_frame>>

CallNearestOne(points, point) ==
    /\ lib = NoCall
    /\ \/ lib' = [fn |-> "nearest_one", impl |-> "linear",
                  points |-> points, point |-> point,
                  result |-> nearest_one(points, point)]
       \/ \E neighbor \in kiddo_nearest_one(points, point) :
              lib' = [fn |-> "nearest_one", impl |-> "kdtree",
                      points |-> points, point |-> point,
                      result |-> KdTree_nearest_one(neighbor)]
    /\ UNCHANGED <<rrt, frame, last, start, twin_rrt, twin_frame>>

CallNearestK(points, point, k) ==
    /\ lib = NoCall
    /\ \/ lib' = [fn |-> "nearest_k", impl |-> "linear",
                  points |-> points, point |-> point, k |-> k,
                  result |-> nearest_k(points, point, k)]
       \/ lib' = [fn |-> "nearest_k", impl |-> "kdtree",
                  points |-> points, point |-> point, k |-> k,
                  result |-> KdTree_nearest_k(points, point, k)]
    /\ UNCHANGED <<rrt, frame, last, start, twin_rrt, twin_frame>>

CallWithinRadius(points, point, radius) ==
    /\ lib = NoCall
    /\ \/ lib' = [fn |-> "within_radius", impl |-> "linear",
                  points |-> points, point |-> point, radius |-> radius,
                  result |-> within_radius(points, point, radius)]
       \/ lib' = [fn |-> "within_radius", impl |-> "kdtree",
                  points |-> points, point |-> point, radius |-> radius,
                  result |-> KdTree_within_radius(points, point, radius)]
    /\ UNCHANGED <<rrt, frame, last, start, twin_rrt, twin_frame>>

\* the whole f32 values the callers of steer take coordinates from: small
\* ones, and ones around 2^24 where the f32 values thin out
Floats ==
    { x \in (0..16) \cup ((2^MANTISSA_DIGITS - 4)..(2^MANTISSA_DIGITS + 16)) :
          round(x) = x }

\* from and to lie close enough for their squared distance to be exact
CallSteer(from, to, r) ==
    /\ lib = NoCall
    /\ abs(to - from) <= 16
    /\ lib' = [fn |-> "steer",
               from |-> Point(<<from>>),
               to |-> Point(<<to>>),
               range |-> r,
               result |-> steer(EuclideanSteering_new(r), Point(<<from>>), Point(<<to>>))]
    /\ UNCHANGED <<rrt, frame, last, start, twin_rrt, twin_frame>>

LibNext ==
    \/ \E path \in ValidPaths : CallFastShortcutting(path)
    \/ \E a \in Waypoints, b \in Waypoints : CallIsEdgeValid(a, b)
    \/ \E points \in Indexes, point \in Waypoints : CallNearestOne(points, point)
    \/ \E points \in Indexes, point \in Waypoints, k \in 0..2 :
           CallNearestK(points, point, k)
    \/ \E points \in Indexes, point \in Waypoints, radius \in {0, 2, 6} :
           CallWithinRadius(points, point, radius)
    \/ \E from \in Floats, to \in Floats, r \in {1, 3, 8} : CallSteer(from, to, r)

LibSpec == Init /\ [][LibNext]_vars

----------------------------------------------------------------------------
(* Claims *)

NodeCount == Len(rrt.nodes)
LastRejected == last.op = "iteration" /\ ~(last.point_valid /\ last.edge_valid)
LastAccepted == last.op = "iteration" /\ last.point_valid /\ last.edge_valid
WithinGoalTolerance(point) ==
    euclidean_distance_squared(point, rrt.goal)
        <= rrt.goal_tolerance * rrt.goal_tolerance

\* C1: node 0 is the only node without a parent, and every node at an index
\* i > 0 has a parent index p with 0 <= p < i.
C1_ParentBelowChild ==
    /\ NodeAt(rrt, 0).parent = None
    /\ \A i \in 1..(NodeCount - 1) :
           /\ is_some(NodeAt(rrt, i).parent)
           /\ unwrap(NodeAt(rrt, i).parent) \in 0..(i - 1)

\* a tree of four nodes in which some node hangs below a non-root node
C1_Witness ==
    /\ NodeCount >= 4
    /\ \E i \in 1..(NodeCount - 1) : unwrap(NodeAt(rrt, i).parent) >= 1

\* C2 (as claimed): once the solution marker holds a node index, no later
\* step changes it.
C2_SolutionSetOnce ==
    [][solved(rrt) => rrt'.solution = rrt.solution]_vars

\* C3 (as claimed): solve runs at most max_iterations iterations, and it runs
\* no iteration in a state where the planner is already solved.
C3_SolveNeverIteratesWhenSolved ==
    /\ frame.fn = "solve" => frame.i <= frame.arg
    /\ (frame.fn = "solve" /\ last.op = "iteration") => ~last.solved_before

\* C4 (as claimed): the value solve returns equals solved() when it returns.
C4_SolveReturnsSolved ==
    (frame.fn = "solve" /\ ~frame.active) => (frame.ret = solved(rrt))

\* C5: get_path() is None exactly while the planner is not solved; once it is
\* solved the path starts at the start point given to new and ends within
\* goal tolerance of the goal.
C5_PathEndpoints ==
    /\ ~solved(rrt) => get_path(rrt) = None
    /\ solved(rrt) =>
           /\ is_some(get_path(rrt))
           /\ LET path == unwrap(get_path(rrt))
              IN /\ Len(path) >= 1
                 /\ path[1] = start
                 /\ WithinGoalTolerance(path[Len(path)])

\* a solved planner whose path has an intermediate point
C5_Witness ==
    /\ solved(rrt)
    /\ Len(unwrap(get_path(rrt))) >= 3

\* C6: every non-root node has a valid point and a valid edge from its
\* parent's point, and every consecutive pair of the path is such a
\* parent/child edge.
C6_TreeEdgesValid ==
    /\ \A i \in 1..(NodeCount - 1) :
           /\ is_point_valid(rrt.validity_checker, NodeAt(rrt, i).point)
           /\ is_edge_valid(rrt.validity_checker,
                            NodeAt(rrt, unwrap(NodeAt(rrt, i).parent)).point,
                            NodeAt(rrt, i).point)
    /\ solved(rrt) =>
           LET path == unwrap(get_path(rrt))
           IN \A k \in 1..(Len(path) - 1) :
                  /\ is_edge_valid(rrt.validity_checker, path[k], path[k + 1])
                  /\ \E i \in 1..(NodeCount - 1) :
                         /\ NodeAt(rrt, i).point = path[k + 1]
                         /\ NodeAt(rrt, unwrap(NodeAt(rrt, i).parent)).point = path[k]

\* a solved planner of at least three nodes whose path
\* moves along two edges of non-zero length
C6_Witness ==
    /\ solved(rrt)
    /\ NodeCount >= 3
    /\ LET path == unwrap(get_path(rrt))
       IN Len(path) >= 3 /\ path[1] # path[2] /\ path[2] # path[3]

\* C7: an iteration whose steered point or connecting edge is invalid leaves
\* the nodes, the solution marker and the nearest-neighbour index unchanged.
C7_RejectedIterationChangesNothing ==
    [][(last'.op = "iteration" /\ ~(last'.point_valid /\ last'.edge_valid))
           => rrt' = rrt]_vars

\* an iteration was rejected for its edge alone, on a tree that has grown
C7_Witness ==
    /\ last.op = "iteration"
    /\ last.point_valid /\ ~last.edge_valid
    /\ NodeCount >= 2

\* C8: the tree starts as the single node (start, no parent); every step keeps
\* the existing nodes as they are and appends at most one node; an iteration
\* appends one exactly when the steered point and edge are valid, and no
\* other step appends.
C8_AppendOnly ==
    /\ rrt.nodes = << Node(start, None) >>
    /\ [][/\ Len(rrt'.nodes) \in {NodeCount, NodeCount + 1}
          /\ SubSeq(rrt'.nodes, 1, NodeCount) = rrt.nodes
          /\ last'.op = "iteration" =>
                 (Len(rrt'.nodes) = NodeCount + 1
                      <=> (last'.point_valid /\ last'.edge_valid))
          /\ last'.op # "iteration" => rrt'.nodes = rrt.nodes]_vars

\* an iteration has appended a node to a tree of at least two nodes
C8_Witness ==
    /\ LastAccepted
    /\ NodeCount >= 3

\* C9: once solved() is true it stays true, and get_path() is never None again.
C9_SolvedIsOneWay ==
    [][solved(rrt) => (solved(rrt') /\ is_some(get_path(rrt')))]_vars

\* an iteration ran on a solved planner and appended a node outside the goal
\* tolerance
C9_Witness ==
    /\ LastAccepted
    /\ last.solved_before
    /\ solved(rrt)
    /\ ~WithinGoalTolerance(NodeAt(rrt, NodeCount - 1).point)

C16_IndexMirrorsNodes ==
    /\ rrt.nearest_neighbors =
           [k \in 1..NodeCount |-> <<NodeAt(rrt, k - 1).point, k - 1>>]
    /\ rrt.nearest_neighbors # NearestNeighbors_new
    /\ nearest_one(rrt.nearest_neighbors, rrt.goal)
           \in { Some(i) : i \in 0..(NodeCount - 1) }
    /\ last.op = "iteration" =>
           unwrap(last.nearest_node_index)
               < NodeCount - (IF LastAccepted THEN 1 ELSE 0)

\* an iteration on a tree of three nodes or more whose query returned a
\* node other than the root
C16_Witness ==
    /\ last.op = "iteration"
    /\ last.solved_before = FALSE
    /\ NodeCount >= 3
    /\ unwrap(last.nearest_node_index) >= 1

\* C17: the root is never recorded as solution: a planner holding only its
\* root is not solved, even with the start within tolerance of the goal; a
\* recorded solution is the index, 1 or more, of a node within tolerance of
\* the goal, and every path returned has two points or more.
C17_RootNeverSolution ==
    /\ NodeCount = 1 => ~solved(rrt)
    /\ solved(rrt) =>
           /\ unwrap(rrt.solution) \in 1..(NodeCount - 1)
           /\ WithinGoalTolerance(NodeAt(rrt, unwrap(rrt.solution)).point)
           /\ Len(unwrap(get_path(rrt))) >= 2

\* a planner started within tolerance of the goal that was solved by its
\* first accepted node
C17_Witness ==
    /\ WithinGoalTolerance(start)
    /\ solved(rrt)
    /\ rrt.solution = Some(1)
    /\ Len(unwrap(get_path(rrt))) = 2

\* C11: for a valid path of one point or more, fast_shortcutting returns a
\* sequence with the first and the last element of the input that is no
\* longer than the input.
C11_ShortcutKeepsEndsAndLength ==
    lib.fn = "fast_shortcutting" =>
        /\ lib.result[1] = lib.path[1]
        /\ lib.result[Len(lib.result)] = lib.path[Len(lib.path)]
        /\ Len(lib.result) <= Len(lib.path)

\* C12: for a valid path, every consecutive pair of the output of
\* fast_shortcutting passes is_edge_valid of the same validity checker.
C12_ShortcutEdgesValid ==
    lib.fn = "fast_shortcutting" =>
        \A k \in 1..(Len(lib.result) - 1) :
            is_edge_valid(waypoint_obstacles, lib.result[k], lib.result[k + 1])

\* a path of four points of which one was dropped and one committed after an
\* edge from the anchor failed
C12_Witness ==
    /\ lib.fn = "fast_shortcutting"
    /\ Len(lib.path) = 4
    /\ Len(lib.result) = 3
    /\ ~is_edge_valid(waypoint_obstacles, lib.path[1], lib.path[4])

\* C13: for an edge of length zero, is_edge_valid(a, a) returns what
\* is_point_valid(a) returns, false for a point inside or on a sphere.
C13_ZeroLengthEdgeIsPointValidity ==
    (lib.fn = "is_edge_valid" /\ lib.a = lib.b) =>
        lib.result = is_point_valid(waypoint_obstacles, lib.a)

\* C14: on an index to which nothing has been added, nearest_one returns
\* none and nearest_k and within_radius return an empty collection, in the
\* linear and in the k-d tree implementation.
C14_EmptyIndexQueries ==
    (lib.fn \in {"nearest_one", "nearest_k", "within_radius"}
         /\ lib.points = NearestNeighbors_new) =>
        IF lib.fn = "nearest_one" THEN lib.result = None ELSE lib.result = << >>

\* C15: steer moves by no more than range: it returns `to` when `to` is
\* within range of `from` and otherwise a point at distance range from
\* `from`, so that the distance moved is the distance to `to` exactly when
\* `to` is within range.
C15_SteerWithinRange ==
    lib.fn = "steer" =>
        LET distance == euclidean_distance(lib.from, lib.to)
            moved == euclidean_distance(lib.from, lib.result)
        IN /\ moved <= lib.range
           /\ distance <= lib.range => lib.result = lib.to
           /\ distance > lib.range => moved = lib.range
           /\ moved = distance <=> distance <= lib.range

====
